---- MODULE Spec2Model ----
(***************************************************************************)
(* Model of src/bot.py, a Telegram channel copier built on                 *)
(* python-telegram-bot (telegram.ext.Application).                         *)
(*                                                                         *)
(* The state is the module global forwarding_active, the requests the bot  *)
(* has issued to the platform (copy_message, send_message to the owner,    *)
(* reply_text to a command) and the position of the one-shot permission    *)
(* check job.  One action per handler: the dispatcher processes updates    *)
(* one at a time (concurrent_updates is left at its default), so a handler *)
(* runs to completion before the next update; the permission check is a    *)
(* job on the same event loop and interleaves with updates at its awaits.  *)
(* A handler that raises is followed, in the same dispatch, by the         *)
(* registered error_handler (Application.process_error).                   *)
(***************************************************************************)
EXTENDS Integers, Sequences, FiniteSets, TLC

VARIABLES
    forwarding_active,  \* the module global of line 24
    CHANNEL_SOURCE_ID,  \* the configured source id, a string (line 12)
    copies,             \* every copy_message request issued so far, in order
    ownerMsgs,          \* every send_message to the owner issued so far, in order
    replies,            \* the reply_text calls made for the update handled last
    last,               \* the update or job step handled last, and how it ended
    everPaused,         \* forwarding has been paused at least once
    nUpdates,           \* number of updates dispatched so far
    vpc,                \* position of the permission check job
    source_ok,          \* the local source_ok of check_permissions
    source_status,      \* what the source lookup of line 117 answered
    env,                \* the environment the configuration is read from
    mpc                 \* position of main

vars == <<forwarding_active, CHANNEL_SOURCE_ID, copies, ownerMsgs, replies,
          last, everPaused, nUpdates, vpc, source_ok, source_status, env, mpc>>

----------------------------------------------------------------------------
(* Bounds *)

\* number of updates (events and commands) the dispatcher delivers
MaxUpdates == 3

----------------------------------------------------------------------------
(* Configuration (module level, lines 11-14) *)

\* CHANNEL_SOURCE_ID = os.getenv(...): a string, here a tuple of characters.
\* The first is the id of the source channel, the second a channel username,
\* which is present (truthy) but no integer.
SourceIdChoices == { <<"-","1","0","0","1","1","1">>, <<"@","s","r","c">> }

CHANNEL_TARGET_ID == "-100222"

OWNER_ID == 555

\* chat ids of channels that are not the source, and users that are not the owner
OtherChatIds == { -100999 }
UserIds == { OWNER_ID, 999 }

----------------------------------------------------------------------------
(* int(CHANNEL_SOURCE_ID), line 184: optional surrounding blanks, optional  *)
(* sign, one or more decimal digits; anything else raises ValueError        *)

Digits == <<"0","1","2","3","4","5","6","7","8","9">>

IsDigit(c) == \E i \in 1..10 : Digits[i] = c

DigitVal(c) == (CHOOSE i \in 1..10 : Digits[i] = c) - 1

RECURSIVE Strip(_)
Strip(s) ==
    IF s = <<>> THEN s
    ELSE IF Head(s) = " " THEN Strip(Tail(s))
    ELSE IF s[Len(s)] = " " THEN Strip(SubSeq(s, 1, Len(s) - 1))
    ELSE s

RECURSIVE DigitsVal(_, _)
DigitsVal(s, acc) ==
    IF s = <<>> THEN acc ELSE DigitsVal(Tail(s), acc * 10 + DigitVal(Head(s)))

\* [ok |-> FALSE] stands for ValueError
int(str) ==
    LET s    == Strip(str)
        sgn  == IF s # <<>> /\ Head(s) = "-" THEN -1 ELSE 1
        body == IF s # <<>> /\ Head(s) \in {"-", "+"} THEN Tail(s) ELSE s
    IN  IF body # <<>> /\ \A i \in 1..Len(body) : IsDigit(body[i])
        THEN [ok |-> TRUE, val |-> sgn * DigitsVal(body, 0)]
        ELSE [ok |-> FALSE, val |-> 0]

\* line 184 for each source id the configuration can hold, computed once
SourceIdInt == [s \in SourceIdChoices |-> int(s)]

\* chat ids a channel update can carry
ChatIds ==
    { SourceIdInt[s].val : s \in { t \in SourceIdChoices : SourceIdInt[t].ok } }
    \cup OtherChatIds

----------------------------------------------------------------------------
(* Library facts the handlers depend on *)

\* attributes of telegram.Message read by the code; effective_message is an
\* attribute of telegram.Update, not of telegram.Message
MessageAttrs == {"text", "caption", "media_group_id", "poll", "location",
                 "contact", "sticker", "message_id", "chat", "reply_text"}

\* attributes of telegram.ext.Application; it has bot and job_queue, and no
\* attribute named context (a context is only handed to callbacks)
ApplicationAttrs == {"bot", "job_queue", "add_handler", "add_error_handler",
                     "run_polling"}

----------------------------------------------------------------------------
(* Updates *)

\* the content fields of a channel post; photo is a media item with no
\* caption and no media group, none a service message
ContentKinds == {"text", "caption", "mediaGroup", "poll", "location",
                 "contact", "sticker", "photo", "none"}

\* line 193: the seven fields whose truthiness keeps a post from being ignored
CheckedKinds == {"text", "caption", "mediaGroup", "poll", "location",
                 "contact", "sticker"}

\* what `last` records: op is "update", a command name or a job step; active
\* is forwarding_active when the step began; raised tells whether an
\* exception left the handler; copyOk is FALSE when the platform fails
\* copy_message for this update; sendOk is FALSE when a send_message to the
\* owner was attempted in the step and failed; status and can_post are the
\* answer of get_chat_member in a job step
NoLast == [op |-> "none", type |-> "none", chat_id |-> 0, message_id |-> 0,
           kind |-> "none", user_id |-> 0, active |-> TRUE, raised |-> FALSE,
           copyOk |-> TRUE, sendOk |-> TRUE, status |-> "", can_post |-> FALSE]

----------------------------------------------------------------------------
(* Utility functions *)

is_owner_anyone(user_id) == TRUE

\* lines 28-30
is_owner(user_id) == user_id = OWNER_ID

send_owner_message_retried(msgs, text) ==
    IF OWNER_ID # 0 THEN Append(Append(msgs, text), text) ELSE msgs

\* lines 32-38: one send_message to the owner chat when OWNER_ID is truthy.
\* Whether the send succeeds makes no difference to the caller: a failure
\* is logged and swallowed (lines 37-38).
send_owner_message(msgs, text) ==
    IF OWNER_ID # 0 THEN Append(msgs, text) ELSE msgs

error_handler_silent(msgs, error, chat_id) == msgs

\* lines 155-168: the report of an unhandled exception; chat_id is 0 when
\* there is no update (a job) and is otherwise update.effective_chat.id
error_handler(msgs, error, chat_id) ==
    send_owner_message(msgs, [kind |-> "bot_error", error |-> error,
                              chat_id |-> chat_id, message_id |-> 0,
                              source |-> <<>>, target |-> ""])

\* the answers the platform can give to a call: success or an exception,
\* when the call is made at all
Outcomes(called) == IF called THEN BOOLEAN ELSE {TRUE}

----------------------------------------------------------------------------
(* Event router: handle_channel_post, lines 172-229 *)

GateIgnored == FALSE

\* lines 176-178: the early return while forwarding is paused
GatePaused == ~forwarding_active

IsSourcePost_anyChat(u, source_id_int) == u.type = "channel_post"

\* line 189: update.channel_post and update.channel_post.chat.id == source_id_int
IsSourcePost(u, source_id_int) ==
    u.type = "channel_post" /\ u.chat_id = source_id_int

\* line 193: message.effective_message is read first; message is a
\* telegram.Message, so the read raises AttributeError
EffectiveMessageRaises == "effective_message" \notin MessageAttrs

\* line 193, were the read to succeed: none of the seven checked fields is set
IsEmptyPost(kind) == kind \notin CheckedKinds

\* lines 206-210: the arguments of context.bot.copy_message
CopyRequest(u) ==
    [chat_id |-> CHANNEL_TARGET_ID, from_chat_id |-> CHANNEL_SOURCE_ID,
     message_id |-> u.message_id]

\* line 221: the text of the copy failure notification
CopyFailureText(u) ==
    [kind |-> "copy_failed", error |-> "copy_message failed", chat_id |-> 0,
     message_id |-> u.message_id, source |-> CHANNEL_SOURCE_ID,
     target |-> CHANNEL_TARGET_ID]

\* The handler as a function of the update and of what the platform will
\* answer to copy_message (copyOk).  raised = TRUE when an exception leaves
\* the handler.
handle_channel_post(u, copyOk) ==
    LET same == [raised |-> FALSE, copies |-> copies, msgs |-> ownerMsgs]
        src  == SourceIdInt[CHANNEL_SOURCE_ID]
    IN  IF GatePaused THEN same
        ELSE IF ~src.ok THEN same
        ELSE IF IsSourcePost(u, src.val)
        THEN IF EffectiveMessageRaises
             THEN [raised |-> TRUE, copies |-> copies, msgs |-> ownerMsgs]
             ELSE IF IsEmptyPost(u.kind) THEN same
             ELSE IF copyOk
             THEN [raised |-> FALSE, copies |-> Append(copies, CopyRequest(u)),
                   msgs |-> ownerMsgs]
             ELSE [raised |-> FALSE, copies |-> Append(copies, CopyRequest(u)),
                   msgs |-> send_owner_message(ownerMsgs, CopyFailureText(u))]
        ELSE same

\* line 248: filters.ALL & filters.ChatType.CHANNEL matches the updates whose
\* effective message is in a channel
ChannelFilter(u) == u.type \in {"channel_post", "edited_channel_post"}

\* the updates the platform can deliver next: channel posts and their edits
\* from any channel, and plain messages in a private chat; message ids grow
Updates ==
    { [type |-> "channel_post", chat_id |-> c, message_id |-> 42 + nUpdates, kind |-> k] :
        c \in ChatIds, k \in ContentKinds }
    \cup
    { [type |-> "edited_channel_post", chat_id |-> c, message_id |-> 42 + nUpdates,
       kind |-> "text"] : c \in ChatIds }
    \cup
    { [type |-> "message", chat_id |-> c, message_id |-> 42 + nUpdates, kind |-> "text"] :
        c \in UserIds }

\* One update taken from the update queue and dispatched (lines 248, 251):
\* to handle_channel_post when the filter matches, to no handler otherwise,
\* and to error_handler when the handler raised.
ProcessUpdate ==
    /\ mpc = "polling"
    /\ nUpdates < MaxUpdates
    /\ \E u \in Updates, copyOk \in BOOLEAN :
         LET r == IF ChannelFilter(u) THEN handle_channel_post(u, copyOk)
                  ELSE [raised |-> FALSE, copies |-> copies, msgs |-> ownerMsgs]
         IN  /\ copies' = r.copies
             /\ ownerMsgs' = IF r.raised
                             THEN error_handler(r.msgs, "AttributeError", u.chat_id)
                             ELSE r.msgs
             /\ \E sendOk \in Outcomes(ownerMsgs' # ownerMsgs) :
                  last' = [NoLast EXCEPT !.op = "update", !.type = u.type,
                              !.chat_id = u.chat_id, !.message_id = u.message_id,
                              !.kind = u.kind, !.active = forwarding_active,
                              !.raised = r.raised, !.copyOk = copyOk,
                              !.sendOk = sendOk]
    /\ nUpdates' = nUpdates + 1
    /\ replies' = <<>>
    /\ UNCHANGED <<forwarding_active, CHANNEL_SOURCE_ID, everPaused, vpc, source_ok,
                   source_status, env, mpc>>

----------------------------------------------------------------------------
(* Command surface, lines 42-103.  A command arrives in the private chat of *)
(* the user who sends it; reply_text answers in that chat and, like every   *)
(* platform call, can fail (replyOk = FALSE), which raises out of the       *)
(* handler into error_handler.                                              *)

Reply(body) == [body |-> body, source |-> <<>>, target |-> "", owner |-> 0, status |-> ""]

StartForwardReply_alwaysStarted(active) == Reply("Forwarding started.")

\* lines 68-72
StartForwardReply(active) ==
    IF active THEN Reply("Forwarding is already active.")
    ELSE Reply("Forwarding started.")

\* lines 82-86
StopForwardReply(active) ==
    IF ~active THEN Reply("Forwarding is already paused.")
    ELSE Reply("Forwarding paused.")

StatusText_alwaysActive(active) ==
    [body |-> "Channel Copier Bot Status", source |-> CHANNEL_SOURCE_ID,
     target |-> CHANNEL_TARGET_ID, owner |-> OWNER_ID, status |-> "ACTIVE"]

\* lines 95-101
StatusText(active) ==
    [body |-> "Channel Copier Bot Status", source |-> CHANNEL_SOURCE_ID,
     target |-> CHANNEL_TARGET_ID, owner |-> OWNER_ID,
     status |-> IF active THEN "ACTIVE" ELSE "INACTIVE"]

\* what the command handlers share: the reply_text call, the report of
\* error_handler when that call raises, and the record of the command
Command(op, user, replied, text, replyOk, sendOk) ==
    /\ replyOk \in Outcomes(replied)
    /\ sendOk \in Outcomes(replied /\ ~replyOk)
    /\ mpc = "polling"
    /\ nUpdates < MaxUpdates
    /\ nUpdates' = nUpdates + 1
    /\ replies' = IF replied THEN <<[to |-> user, text |-> text]>> ELSE <<>>
    /\ ownerMsgs' = IF replied /\ ~replyOk
                    THEN error_handler(ownerMsgs, "reply_text failed", user)
                    ELSE ownerMsgs
    /\ last' = [NoLast EXCEPT !.op = op, !.type = "message", !.chat_id = user,
                   !.message_id = 42 + nUpdates, !.kind = "text", !.user_id = user,
                   !.active = forwarding_active, !.raised = replied /\ ~replyOk,
                   !.sendOk = sendOk]
    /\ UNCHANGED <<CHANNEL_SOURCE_ID, copies, vpc, source_ok, source_status, env, mpc>>

GateAfterReply_rolledBack(requested, before, replyOk) ==
    IF replyOk THEN requested ELSE before

\* lines 71-72 and 85-86: forwarding_active is assigned before reply_text is
\* awaited and nothing undoes the assignment when the reply raises
GateAfterReply(requested, before, replyOk) == requested

\* lines 42-59: /start answers in a private chat only, to anyone
start_command ==
    \E user \in UserIds, chat_type \in {"private", "group"},
       replyOk \in BOOLEAN, sendOk \in BOOLEAN :
        /\ Command("start", user, chat_type = "private", Reply("Welcome"), replyOk, sendOk)
        /\ UNCHANGED <<forwarding_active, everPaused>>

\* lines 61-73
start_forward_command ==
    \E user \in UserIds, replyOk \in BOOLEAN, sendOk \in BOOLEAN :
        /\ Command("start_forward", user, is_owner(user),
                   StartForwardReply(forwarding_active), replyOk, sendOk)
        /\ forwarding_active' = IF is_owner(user) /\ ~forwarding_active
                                THEN GateAfterReply(TRUE, forwarding_active, replyOk)
                                ELSE forwarding_active
        /\ UNCHANGED everPaused

\* lines 75-87
stop_forward_command ==
    \E user \in UserIds, replyOk \in BOOLEAN, sendOk \in BOOLEAN :
        /\ Command("stop_forward", user, is_owner(user),
                   StopForwardReply(forwarding_active), replyOk, sendOk)
        /\ forwarding_active' = IF is_owner(user) /\ forwarding_active
                                THEN GateAfterReply(FALSE, forwarding_active, replyOk)
                                ELSE forwarding_active
        /\ everPaused' = (everPaused \/ ~forwarding_active')

\* lines 89-103
status_command ==
    \E user \in UserIds, replyOk \in BOOLEAN, sendOk \in BOOLEAN :
        /\ Command("status", user, is_owner(user),
                   StatusText(forwarding_active), replyOk, sendOk)
        /\ UNCHANGED <<forwarding_active, everPaused>>

----------------------------------------------------------------------------
(* Permission verifier: check_permissions, lines 105-151, run once as a job *)
(* (line 257).  It awaits get_chat_member twice; each action below runs     *)
(* from one await to the next.  An exception that leaves the job is handed  *)
(* to error_handler with no update.                                         *)

\* what bot.get_chat_member answers: it raises, or returns a member
Lookups ==
    { [raised |-> TRUE, status |-> "raised", can_post |-> FALSE] } \cup
    { [raised |-> FALSE, status |-> "administrator", can_post |-> cp] : cp \in BOOLEAN } \cup
    { [raised |-> FALSE, status |-> st, can_post |-> FALSE] : st \in {"member", "left"} }

\* lines 123-151 pass application.context to send_owner_message; the
\* argument is evaluated first and raises AttributeError
AppContextRaises == "context" \notin ApplicationAttrs

Diag(kind) ==
    [kind |-> kind, error |-> "", chat_id |-> 0, message_id |-> 0,
     source |-> CHANNEL_SOURCE_ID, target |-> CHANNEL_TARGET_ID]

\* line 118
SourcePasses(lk) == lk.status \in {"administrator", "member"}

\* lines 114-127.  prop = TRUE when an exception leaves check_permissions.
CheckSourceResult(lk) ==
    LET tryRaises == lk.raised \/ (~SourcePasses(lk) /\ AppContextRaises)
    IN  IF ~tryRaises
        THEN IF SourcePasses(lk)
             THEN [prop |-> FALSE, source_ok |-> TRUE, msgs |-> ownerMsgs]
             ELSE [prop |-> FALSE, source_ok |-> FALSE,
                   msgs |-> send_owner_message(ownerMsgs, Diag("source_not_member"))]
        ELSE IF AppContextRaises
             THEN [prop |-> TRUE, source_ok |-> FALSE, msgs |-> ownerMsgs]
             ELSE [prop |-> FALSE, source_ok |-> FALSE,
                   msgs |-> send_owner_message(ownerMsgs, Diag("source_check_failed"))]

\* line 134
TargetPasses(lk) == lk.status = "administrator" /\ lk.can_post

\* lines 137-142: the diagnostic of a target that does not pass
TargetDiag(lk) ==
    IF lk.status = "administrator" /\ ~lk.can_post
    THEN Diag("target_missing_post_permission")
    ELSE Diag("target_not_administrator")

\* lines 148-151
Summary(s_ok, t_ok) ==
    IF s_ok /\ t_ok THEN Diag("all_verified") ELSE Diag("startup_warning")

\* lines 130-151
CheckTargetResult(lk) ==
    LET tryRaises == lk.raised \/ (~TargetPasses(lk) /\ AppContextRaises)
        t_ok      == ~lk.raised /\ TargetPasses(lk)
        afterTry  ==
            IF ~tryRaises
            THEN IF TargetPasses(lk) THEN [prop |-> FALSE, msgs |-> ownerMsgs]
                 ELSE [prop |-> FALSE,
                       msgs |-> send_owner_message(ownerMsgs, TargetDiag(lk))]
            ELSE IF AppContextRaises THEN [prop |-> TRUE, msgs |-> ownerMsgs]
                 ELSE [prop |-> FALSE,
                       msgs |-> send_owner_message(ownerMsgs, Diag("target_check_failed"))]
    IN  IF afterTry.prop \/ AppContextRaises
        THEN [prop |-> TRUE, msgs |-> afterTry.msgs]
        ELSE [prop |-> FALSE,
              msgs |-> send_owner_message(afterTry.msgs, Summary(source_ok, t_ok))]

\* what the two steps of the job share: the report of error_handler when
\* the job raised, and the record of the step
JobStep(op, lk, prop, msgs) ==
    /\ mpc = "polling"
    /\ ownerMsgs' = IF prop THEN error_handler(msgs, "AttributeError", 0) ELSE msgs
    /\ \E sendOk \in Outcomes(ownerMsgs' # ownerMsgs) :
         last' = [NoLast EXCEPT !.op = op, !.active = forwarding_active,
                     !.raised = prop, !.status = lk.status, !.can_post = lk.can_post,
                     !.sendOk = sendOk]
    /\ UNCHANGED <<forwarding_active, CHANNEL_SOURCE_ID, copies, replies,
                   everPaused, nUpdates, env, mpc>>

CheckSource ==
    /\ vpc = "scheduled"
    /\ \E lk \in Lookups :
         LET r == CheckSourceResult(lk)
         IN  /\ JobStep("check_source", lk, r.prop, r.msgs)
             /\ source_ok' = r.source_ok
             /\ source_status' = lk.status
             /\ vpc' = IF r.prop THEN "raised" ELSE "target"

CheckTarget ==
    /\ vpc = "target"
    /\ \E lk \in Lookups :
         LET r == CheckTargetResult(lk)
         IN  /\ JobStep("check_target", lk, r.prop, r.msgs)
             /\ vpc' = IF r.prop THEN "raised" ELSE "done"
             /\ UNCHANGED <<source_ok, source_status>>

----------------------------------------------------------------------------
(* Startup: the module level configuration (lines 11-14) and main (232-259) *)

\* a variable of the environment: unset (os.getenv gives None) or a string
EnvValues(vals) ==
    { [set |-> FALSE, val |-> <<>>], [set |-> TRUE, val |-> <<>>] } \cup
    { [set |-> TRUE, val |-> v] : v \in vals }

\* the environments the bot can be started in; OWNER_ID holds an integer
\* when it holds anything
Envs ==
    [ BOT_TOKEN         : EnvValues({ <<"t","o","k">> }),
      CHANNEL_SOURCE_ID : EnvValues(SourceIdChoices),
      CHANNEL_TARGET_ID : EnvValues({ <<"-","1","0","0","2","2","2">> }),
      OWNER_ID          : EnvValues({ <<"0">>, <<"5","5","5">> }) ]

\* truthiness of what os.getenv returns: None and "" are falsy
Truthy(ev) == ev.set /\ ev.val # <<>>

\* line 14: int(os.getenv("OWNER_ID")) if os.getenv("OWNER_ID") else None;
\* 0 stands for None as well, both are falsy
OwnerIdOf(ev) == IF Truthy(ev) THEN int(ev.val).val ELSE 0

ConfigComplete_ownerForgotten(e) ==
    /\ Truthy(e.BOT_TOKEN)
    /\ Truthy(e.CHANNEL_SOURCE_ID)
    /\ Truthy(e.CHANNEL_TARGET_ID)

\* line 234: all([BOT_TOKEN, CHANNEL_SOURCE_ID, CHANNEL_TARGET_ID, OWNER_ID])
ConfigComplete(e) ==
    /\ Truthy(e.BOT_TOKEN)
    /\ Truthy(e.CHANNEL_SOURCE_ID)
    /\ Truthy(e.CHANNEL_TARGET_ID)
    /\ OwnerIdOf(e.OWNER_ID) # 0

\* lines 1-5: the names the module imports; CommandHandler, used on lines
\* 242-245, is not one of them
ImportedNames == {"os", "logging", "load_dotenv", "Update", "Application",
                  "MessageHandler", "filters", "ContextTypes"}

\* line 242: evaluating the name CommandHandler raises NameError
RegisterRaises == "CommandHandler" \notin ImportedNames

\* lines 232-259: main returns when the configuration is incomplete (236);
\* otherwise it builds the application and registers the handlers, which
\* raises NameError on line 242; were it not to, the handlers and the error
\* handler would be registered, the job scheduled and polling entered
main ==
    /\ mpc = "start"
    /\ mpc' = IF ~ConfigComplete(env) THEN "returned"
              ELSE IF RegisterRaises THEN "crashed"
              ELSE "polling"
    /\ vpc' = IF mpc' = "polling" THEN "scheduled" ELSE vpc
    /\ UNCHANGED <<forwarding_active, CHANNEL_SOURCE_ID, copies, ownerMsgs, replies,
                   last, everPaused, nUpdates, source_ok, source_status, env>>

\* the process as started: module level code has run, main has not
InitMain ==
    /\ forwarding_active = TRUE
    /\ env \in Envs
    /\ CHANNEL_SOURCE_ID = env.CHANNEL_SOURCE_ID.val
    /\ copies = <<>>
    /\ ownerMsgs = <<>>
    /\ replies = <<>>
    /\ last = NoLast
    /\ everPaused = FALSE
    /\ nUpdates = 0
    /\ vpc = "unscheduled"
    /\ source_ok = FALSE
    /\ source_status = "pending"
    /\ mpc = "start"

NextMain == main

SpecMain == InitMain /\ [][NextMain]_vars

----------------------------------------------------------------------------
(* The running bot: the state main is written to reach, with the handlers   *)
(* and the error handler registered, the job scheduled and polling entered  *)
(* (lines 242-259), under a complete configuration                          *)

FullEnv(source) ==
    [ BOT_TOKEN         |-> [set |-> TRUE, val |-> <<"t","o","k">>],
      CHANNEL_SOURCE_ID |-> [set |-> TRUE, val |-> source],
      CHANNEL_TARGET_ID |-> [set |-> TRUE, val |-> <<"-","1","0","0","2","2","2">>],
      OWNER_ID          |-> [set |-> TRUE, val |-> <<"5","5","5">>] ]

Init ==
    /\ forwarding_active = TRUE
    /\ CHANNEL_SOURCE_ID \in SourceIdChoices
    /\ env = FullEnv(CHANNEL_SOURCE_ID)
    /\ copies = <<>>
    /\ ownerMsgs = <<>>
    /\ replies = <<>>
    /\ last = NoLast
    /\ everPaused = FALSE
    /\ nUpdates = 0
    /\ vpc = "scheduled"
    /\ source_ok = FALSE
    /\ source_status = "pending"
    /\ mpc = "polling"

Next ==
    \/ ProcessUpdate
    \/ start_command
    \/ start_forward_command
    \/ stop_forward_command
    \/ status_command
    \/ CheckSource
    \/ CheckTarget

Spec == Init /\ [][Next]_vars

----------------------------------------------------------------------------
(* Properties *)

\* the step just taken dispatched an update from the event stream
UpdateStep == nUpdates' # nUpdates /\ last'.op = "update"

\* the step just taken dispatched a command
CommandStep(op) == nUpdates' # nUpdates /\ last'.op = op

\* the update recorded in l is a channel post from the configured source
FromSource(l) ==
    /\ l.type = "channel_post"
    /\ SourceIdInt[CHANNEL_SOURCE_ID].ok
    /\ l.chat_id = SourceIdInt[CHANNEL_SOURCE_ID].val

\* the copy request the spec expects for the update recorded in l
ExpectedCopy(l) ==
    [chat_id |-> CHANNEL_TARGET_ID, from_chat_id |-> CHANNEL_SOURCE_ID,
     message_id |-> l.message_id]

\* C1: a copy request is only ever issued while forwarding is active, and an
\* update that arrives while forwarding is paused adds no copy request and
\* no owner notification, whatever it is.
C1_GateInvariant ==
    [][ /\ (copies' # copies => forwarding_active /\ forwarding_active')
        /\ (UpdateStep /\ ~forwarding_active
              => copies' = copies /\ ownerMsgs' = ownerMsgs) ]_vars

\* a text post from the source channel was handled while paused
C1_Witness ==
    /\ last.op = "update" /\ FromSource(last) /\ last.kind = "text"
    /\ ~last.active /\ ~forwarding_active
    /\ copies = <<>> /\ ownerMsgs = <<>>

\* C2: a source post with one of the seven supported content kinds that
\* arrives while forwarding is active adds exactly one copy request
\* (target, source, message id), and no owner notification when the copy
\* succeeds.
C2_CopyOnce ==
    [][ UpdateStep /\ FromSource(last') /\ last'.kind \in CheckedKinds /\ forwarding_active
          => /\ copies' = Append(copies, ExpectedCopy(last'))
             /\ (last'.copyOk => ownerMsgs' = ownerMsgs) ]_vars

\* C3: when the platform fails the copy of an eligible source post, exactly
\* one copy request was issued for it, exactly one owner notification
\* carrying the message id, the source id and the target id is sent, and no
\* exception leaves the handler.
C3_CopyFailureReportedOnce ==
    [][ UpdateStep /\ FromSource(last') /\ last'.kind \in CheckedKinds
            /\ forwarding_active /\ ~last'.copyOk
          => /\ copies' = Append(copies, ExpectedCopy(last'))
             /\ Cardinality({ i \in 1..Len(copies') :
                                copies'[i].message_id = last'.message_id }) = 1
             /\ Len(ownerMsgs') = Len(ownerMsgs) + 1
             /\ SubSeq(ownerMsgs', 1, Len(ownerMsgs)) = ownerMsgs
             /\ LET m == ownerMsgs'[Len(ownerMsgs')]
                IN  /\ m.message_id = last'.message_id
                    /\ m.source = CHANNEL_SOURCE_ID
                    /\ m.target = CHANNEL_TARGET_ID
             /\ ~last'.raised ]_vars

\* C4: once the owner has paused and resumed forwarding, every eligible
\* source post that arrives is copied; and a copy request is only ever
\* issued for the update being handled, so an update dropped while paused is
\* never copied later.
C4_PauseResume ==
    [][ /\ (UpdateStep /\ everPaused /\ forwarding_active
              /\ FromSource(last') /\ last'.kind \in CheckedKinds
              => copies' = Append(copies, ExpectedCopy(last')))
        /\ (copies' # copies
              => UpdateStep /\ copies' = Append(copies, ExpectedCopy(last'))) ]_vars

\* C5: an update that is not a channel post, or whose chat id is not the
\* configured source id, adds no copy request and no owner notification, in
\* any gate state.
C5_NonSourceIgnored ==
    [][ UpdateStep /\ ~FromSource(last')
          => copies' = copies /\ ownerMsgs' = ownerMsgs ]_vars

\* a text post from another channel was handled while forwarding was active
\* and the source id is a valid integer
C5_Witness ==
    /\ last.op = "update" /\ last.type = "channel_post" /\ last.kind = "text"
    /\ last.chat_id \in OtherChatIds /\ last.active
    /\ SourceIdInt[CHANNEL_SOURCE_ID].ok
    /\ copies = <<>> /\ ownerMsgs = <<>>

\* C6: a source post with no text, caption, media group, poll, location,
\* contact or sticker adds no copy request and no owner notification.
C6_EmptyPostDropped ==
    [][ UpdateStep /\ FromSource(last') /\ last'.kind = "none"
          => copies' = copies /\ ownerMsgs' = ownerMsgs ]_vars

\* C7: a start_forward, stop_forward or status command from anyone but the
\* owner leaves forwarding_active as it is and gets no reply.
C7_OwnerOnly ==
    [][ \A op \in {"start_forward", "stop_forward", "status"} :
          CommandStep(op) /\ last'.user_id # OWNER_ID
            => forwarding_active' = forwarding_active /\ replies' = <<>> ]_vars

\* a stranger asked to stop forwarding while it was active
C7_Witness ==
    /\ last.op = "stop_forward" /\ last.user_id # OWNER_ID
    /\ last.active /\ forwarding_active /\ replies = <<>>

\* C8: the owner's start_forward (stop_forward) when forwarding is already
\* active (paused) leaves the state alone and is answered "already ...";
\* when it requests the other value the state changes and the answer is the
\* transition reply; the two answers differ.
C8_IdempotentToggle ==
    [][ /\ CommandStep("start_forward") /\ last'.user_id = OWNER_ID
          => /\ forwarding_active'
             /\ replies' = <<[to |-> OWNER_ID,
                              text |-> IF forwarding_active
                                       THEN Reply("Forwarding is already active.")
                                       ELSE Reply("Forwarding started.")]>>
        /\ CommandStep("stop_forward") /\ last'.user_id = OWNER_ID
          => /\ ~forwarding_active'
             /\ replies' = <<[to |-> OWNER_ID,
                              text |-> IF forwarding_active
                                       THEN Reply("Forwarding paused.")
                                       ELSE Reply("Forwarding is already paused.")]>> ]_vars

\* the owner asked to start forwarding while it was active
C8_Witness ==
    /\ last.op = "start_forward" /\ last.user_id = OWNER_ID /\ last.active
    /\ forwarding_active
    /\ replies = <<[to |-> OWNER_ID, text |-> Reply("Forwarding is already active.")]>>

\* the notifications of the permission check among the owner's messages
VerifierMsgs(msgs) ==
    SelectSeq(msgs, LAMBDA m : m.kind \notin {"bot_error", "copy_failed"})

\* C9: when the source lookup answered member and the target lookup answers
\* administrator without the right to post, the permission check sends the
\* owner the missing post permission diagnostic and then the warning
\* summary, these two and nothing about the source.
C9_MixedOutcome ==
    [][ vpc = "target" /\ vpc' # "target" /\ source_status = "member"
            /\ last'.status = "administrator" /\ ~last'.can_post
          => /\ ownerMsgs' = ownerMsgs \o <<Diag("target_missing_post_permission"),
                                            Diag("startup_warning")>>
             /\ VerifierMsgs(ownerMsgs') = <<Diag("target_missing_post_permission"),
                                             Diag("startup_warning")>> ]_vars

\* C10: status from the owner gets exactly one reply with the source id,
\* the target id, the owner id and the gate value of that moment; from
\* anyone else it gets none; forwarding_active is never changed.
C10_Status ==
    [][ CommandStep("status")
          => /\ forwarding_active' = forwarding_active
             /\ replies' =
                  IF last'.user_id = OWNER_ID
                  THEN <<[to |-> OWNER_ID,
                          text |-> [body |-> "Channel Copier Bot Status",
                                    source |-> CHANNEL_SOURCE_ID,
                                    target |-> CHANNEL_TARGET_ID,
                                    owner |-> OWNER_ID,
                                    status |-> IF forwarding_active THEN "ACTIVE"
                                               ELSE "INACTIVE"]]>>
                  ELSE <<>> ]_vars

\* the owner asked for the status while forwarding was paused
C10_Witness ==
    /\ last.op = "status" /\ last.user_id = OWNER_ID /\ ~last.active
    /\ Len(replies) = 1 /\ replies[1].text.status = "INACTIVE"

\* C11: when the bot credential, the source id, the target id or the owner
\* id is missing (unset or empty), main returns at once: nothing behind the
\* check of line 234 runs, so no handler is registered, the job is not
\* scheduled, polling is not entered, and no update, copy or notification
\* ever happens.
C11_FatalStartup ==
    (\/ ~Truthy(env.BOT_TOKEN) \/ ~Truthy(env.CHANNEL_SOURCE_ID)
     \/ ~Truthy(env.CHANNEL_TARGET_ID) \/ ~Truthy(env.OWNER_ID))
      => /\ mpc \in {"start", "returned"}
         /\ vpc = "unscheduled"
         /\ nUpdates = 0 /\ copies = <<>> /\ ownerMsgs = <<>> /\ replies = <<>>

\* main has returned because only the owner id is missing
C11_Witness ==
    /\ mpc = "returned"
    /\ Truthy(env.BOT_TOKEN) /\ Truthy(env.CHANNEL_SOURCE_ID)
    /\ Truthy(env.CHANNEL_TARGET_ID) /\ ~env.OWNER_ID.set

\* C12: forwarding_active starts true; an owner's start_forward sets it
\* true, an owner's stop_forward sets it false, and no other step (an
\* update, a copy, a notification, the permission check, status, start, the
\* error handler) changes it.  So it always holds the value the owner asked
\* for last.
C12_OnlyOwnerToggles ==
    [][ /\ (nUpdates = 0 => forwarding_active)
        /\ IF CommandStep("start_forward") /\ last'.user_id = OWNER_ID
           THEN forwarding_active'
           ELSE IF CommandStep("stop_forward") /\ last'.user_id = OWNER_ID
           THEN ~forwarding_active'
           ELSE forwarding_active' = forwarding_active ]_vars

\* paused and resumed by the owner, then a source post whose handling raised
\* into the error handler: forwarding is still active
C12_Witness ==
    /\ everPaused /\ forwarding_active
    /\ last.op = "update" /\ last.raised /\ Len(ownerMsgs) = 1

\* C19: the owner's start_forward and stop_forward write forwarding_active
\* before replying; when the reply fails the new value stays, and an update
\* handled while that value is "paused" is dropped in silence.
C19_WriteBeforeReply ==
    [][ /\ (CommandStep("stop_forward") /\ last'.user_id = OWNER_ID /\ last'.raised
              => ~forwarding_active')
        /\ (CommandStep("start_forward") /\ last'.user_id = OWNER_ID /\ last'.raised
              => forwarding_active')
        /\ (UpdateStep /\ ~forwarding_active
              => copies' = copies /\ ownerMsgs' = ownerMsgs /\ ~last'.raised) ]_vars

\* the reply to the owner's stop_forward failed, and the source post that
\* came next was dropped
C19_Witness ==
    /\ nUpdates = 2 /\ ~forwarding_active
    /\ last.op = "update" /\ FromSource(last) /\ ~last.active /\ ~last.raised
    /\ Len(ownerMsgs) = 1
    /\ ownerMsgs[1].kind = "bot_error" /\ ownerMsgs[1].error = "reply_text failed"
    /\ ownerMsgs[1].chat_id = OWNER_ID
    /\ copies = <<>>

\* C13: a source post whose content is none of the excluded no-payload
\* cases, such as a photo with no caption and no media group, is copied
\* while forwarding is active.
C13_FailOpen ==
    [][ UpdateStep /\ FromSource(last') /\ last'.kind = "photo" /\ forwarding_active
          => /\ Len(copies') = Len(copies) + 1
             /\ copies'[Len(copies')] = ExpectedCopy(last') ]_vars

\* the step just taken was the source check, or the target check, of the job
SourceCheckStep == vpc = "scheduled" /\ vpc' # "scheduled"
TargetCheckStep == vpc = "target" /\ vpc' # "target"

SummaryKinds == {"all_verified", "startup_warning"}

\* C14: a lookup that raises counts as a failure of that channel and gets
\* one diagnostic of its own; the job goes on (after the source to the
\* target check, after the target to the summary) and nothing leaves it.
\* The three target diagnostics differ from each other.
C14_LookupFailure ==
    [][ /\ (SourceCheckStep /\ last'.status = "raised"
              => /\ ownerMsgs' = Append(ownerMsgs, Diag("source_check_failed"))
                 /\ vpc' = "target" /\ ~source_ok' /\ ~last'.raised)
        /\ (TargetCheckStep /\ last'.status = "raised"
              => /\ ownerMsgs' = ownerMsgs \o <<Diag("target_check_failed"),
                                                Diag("startup_warning")>>
                 /\ vpc' = "done" /\ ~last'.raised)
        /\ Cardinality({ Diag("target_check_failed"), Diag("target_not_administrator"),
                         Diag("target_missing_post_permission") }) = 3 ]_vars

\* C15: a run of the permission check ends with exactly one summary, the
\* last thing it sends; the summary is "all verified" exactly when the
\* source status is member or administrator and the target status is
\* administrator with the right to post.
C15_Summary ==
    [][ (SourceCheckStep \/ TargetCheckStep) /\ vpc' \in {"done", "raised"}
          => LET v    == VerifierMsgs(ownerMsgs')
                 sums == SelectSeq(v, LAMBDA m : m.kind \in SummaryKinds)
             IN  /\ Len(sums) = 1
                 /\ v[Len(v)] = sums[1]
                 /\ sums[1].kind = "all_verified"
                      <=> /\ TargetCheckStep
                          /\ source_status \in {"member", "administrator"}
                          /\ last'.status = "administrator" /\ last'.can_post ]_vars

\* C16: a notification is one send_message, never repeated; when the send
\* fails nothing else happens because of it: no further notification, no
\* change of the gate, and the next update can still be dispatched.
C16_NotifierContained ==
    [][ /\ (ownerMsgs' # ownerMsgs
              => /\ Len(ownerMsgs') = Len(ownerMsgs) + 1
                 /\ SubSeq(ownerMsgs', 1, Len(ownerMsgs)) = ownerMsgs)
        /\ (~last'.sendOk
              => /\ Len(ownerMsgs') = Len(ownerMsgs) + 1
                 /\ (UpdateStep \/ SourceCheckStep \/ TargetCheckStep
                       => forwarding_active' = forwarding_active /\ copies' = copies))
        /\ (~last.sendOk /\ nUpdates < MaxUpdates => ENABLED ProcessUpdate) ]_vars

\* a source post raised into the error handler, whose report to the owner
\* could not be sent
C16_Witness ==
    /\ last.op = "update" /\ last.raised /\ ~last.sendOk
    /\ Len(ownerMsgs) = 1 /\ ownerMsgs[1].kind = "bot_error"

\* C17: an exception that leaves a handler or the job reaches the error
\* handler, which sends the owner exactly one report; the failure handling
\* does not change forwarding_active, and the next update is dispatched
\* as usual.
C17_ErrorHandler ==
    [][ /\ (last'.raised
              => /\ Len(ownerMsgs') = Len(ownerMsgs) + 1
                 /\ SubSeq(ownerMsgs', 1, Len(ownerMsgs)) = ownerMsgs
                 /\ ownerMsgs'[Len(ownerMsgs')].kind = "bot_error"
                 /\ ownerMsgs'[Len(ownerMsgs')].chat_id = last'.chat_id
                 /\ (UpdateStep \/ SourceCheckStep \/ TargetCheckStep
                       => forwarding_active' = forwarding_active))
        /\ (last.raised /\ nUpdates < MaxUpdates => ENABLED ProcessUpdate) ]_vars

\* an update raised and was reported, and the update after it was handled
\* without an error
C17_Witness ==
    /\ nUpdates = 2 /\ last.op = "update" /\ ~last.raised
    /\ Len(ownerMsgs) = 1
    /\ ownerMsgs[1].kind = "bot_error" /\ ownerMsgs[1].error = "AttributeError"
    /\ ownerMsgs[1].chat_id # 0

\* C18: copy requests are issued one per eligible source post, in the order
\* the posts were delivered: each eligible post adds its own request at the
\* end, so the message ids of the requests grow.
C18_Ordering ==
    [][ /\ (UpdateStep /\ FromSource(last') /\ last'.kind \in CheckedKinds
              /\ forwarding_active
              => /\ Len(copies') = Len(copies) + 1
                 /\ SubSeq(copies', 1, Len(copies)) = copies
                 /\ copies'[Len(copies')].message_id = last'.message_id)
        /\ Len(copies') <= Len(copies) + 1
        /\ \A i, j \in 1..Len(copies') :
             i < j => copies'[i].message_id < copies'[j].message_id ]_vars

\* C20: with a source id that is present but no integer, and the rest of the
\* configuration complete, main starts the bot.
C20_InvalidSourceStarts ==
    [][ mpc = "start"
            /\ Truthy(env.CHANNEL_SOURCE_ID) /\ ~int(env.CHANNEL_SOURCE_ID.val).ok
            /\ Truthy(env.BOT_TOKEN) /\ Truthy(env.CHANNEL_TARGET_ID)
            /\ Truthy(env.OWNER_ID) /\ env.OWNER_ID.val # <<"0">>
          => mpc' = "polling" /\ vpc' = "scheduled" ]_vars

====
